---- MODULE Spec2Model ----
(***************************************************************************)
(* The ARG classifier / mobility analyzer page (pages/args_classifier.py). *)
(*                                                                         *)
(* One run of main() on one uploaded file is modelled statement by         *)
(* statement: pc is the position in main(), every other variable is a      *)
(* Python object of the run or something the page has shown.               *)
(*                                                                         *)
(* A DataFrame is [n |-> number of rows, col |-> column name :> cells],    *)
(* cells being a sequence of length n.  Cells of the feature columns are   *)
(* naturals 0..MaxVal (graph metrics are non-negative).  Floating point is *)
(* modelled by exact rationals plus one NaN: a number is a record with a   *)
(* nan flag.  Rounding error is not modelled.  The labels' emoji are left  *)
(* out of the strings.                                                     *)
(***************************************************************************)
EXTENDS Integers, Sequences, FiniteSets, TLC

VARIABLES
    model,              \* the module-level classifier: "loaded" or "None"
    task,               \* the sidebar radio's value
    uploaded_file,      \* what st.file_uploader returned
    pc,                 \* position in main()
    input_data,         \* <<>> or <<DataFrame>>: pd.read_csv's result
    features,           \* <<>> or <<DataFrame>>: extract_features' result
    predictions,        \* <<>> or <<labels>>: model.predict's result
    mobility_potential, \* <<>> or <<series>>: analyzer.mobility_potential
    results,            \* <<>> or <<DataFrame>>: analyze_mobility's result
    shown,              \* <<>> or <<DataFrame>>: what st.dataframe displayed
    chart,              \* <<>> or <<counts>>: what st.plotly_chart displayed
    download,           \* <<>> or <<DataFrame>>: what st.download_button offers
    errors,             \* the st.error messages shown, in order
    predict_calls       \* number of calls of model.predict

vars == <<model, task, uploaded_file, pc, input_data, features, predictions,
          mobility_potential, results, shown, chart, download, errors,
          predict_calls>>

-----------------------------------------------------------------------------
(* Bounds of the model. *)

MaxRows == 3        \* rows of an uploaded table under Spec and SpecScore
MaxVal == 1         \* feature cells are 0..MaxVal
MaxMissing == 1     \* required columns absent from an upload under Spec
ColumnRows == 1     \* rows of an uploaded table under SpecColumns

-----------------------------------------------------------------------------
(* Column names and labels. *)

required_columns ==
    << "NearestARGDistance", "AverageARGDistance", "CommunicationEfficiency",
       "PositiveTopologyCoefficient", "Degree", "ClusteringCoefficient",
       "BetweennessCentrality", "ClosenessCentrality", "Eccentricity",
       "NeighborhoodConnectivity", "TopologicalCoefficient" >>

Range(s) == { s[i] : i \in 1..Len(s) }

RequiredSet == Range(required_columns)

\* the columns _calculate_mobility_potential reads, in evaluation order
mobility_columns ==
    << "CommunicationEfficiency", "Degree", "BetweennessCentrality",
       "ClusteringCoefficient", "PositiveTopologyCoefficient",
       "NeighborhoodConnectivity" >>

AllColumns == RequiredSet \cup {"Node", "Extra"}

Tasks == {"ARG Classification", "Mobility Analysis"}

ARG == "ARG"
NonARG == "Non-ARG"
High == "High Mobility"
Moderate == "Moderate Mobility"
Low == "Low Mobility"
NaNCell == "NaN"

Labels == {0, 1}

-----------------------------------------------------------------------------
(* DataFrames and Series. *)

EmptyFrame == [n |-> 0, col |-> [c \in {} |-> <<>>]]

Columns(df) == DOMAIN df.col

\* df[names]: the sub-frame of the named columns (all present)
Select(df, names) == [n |-> df.n, col |-> [c \in names |-> df.col[c]]]

\* df[name] = cells
SetColumn(df, name, cells) ==
    [n |-> df.n,
     col |-> [c \in Columns(df) \cup {name} |->
                IF c = name THEN cells ELSE df.col[c]]]

(* Floats: exact rationals num/den kept in lowest terms with den >= 0;    *)
(* den = 0 is +inf or -inf by the sign of num; NaN is its own value.      *)

RECURSIVE GCD(_, _)
GCD(a, b) == IF b = 0 THEN a ELSE GCD(b, a % b)

Abs(a) == IF a < 0 THEN -a ELSE a
Sign(a) == IF a < 0 THEN -1 ELSE IF a > 0 THEN 1 ELSE 0

NaN == [nan |-> TRUE, num |-> 0, den |-> 1]

Num(a, b) ==
    IF a = 0 /\ b = 0 THEN NaN
    ELSE IF b = 0 THEN [nan |-> FALSE, num |-> Sign(a), den |-> 0]
    ELSE LET g == GCD(Abs(a), Abs(b))
         IN  [nan |-> FALSE, num |-> (Sign(b) * a) \div g, den |-> Abs(b) \div g]

FromInt(k) == Num(k, 1)

Add(x, y) == IF x.nan \/ y.nan THEN NaN
             ELSE Num(x.num * y.den + y.num * x.den, x.den * y.den)
Sub(x, y) == IF x.nan \/ y.nan THEN NaN
             ELSE Num(x.num * y.den - y.num * x.den, x.den * y.den)
Mul(x, y) == IF x.nan \/ y.nan THEN NaN
             ELSE Num(x.num * y.num, x.den * y.den)
Div(x, y) == IF x.nan \/ y.nan THEN NaN
             ELSE IF y.num = 0 THEN Num(x.num, 0)
             ELSE Num(x.num * y.den * Sign(y.num), x.den * Abs(y.num))

\* every comparison with NaN is False
Leq(x, y) == /\ ~x.nan /\ ~y.nan
             /\ IF x.den = 0 /\ y.den = 0 THEN x.num <= y.num
                ELSE x.num * y.den <= y.num * x.den
Geq(x, y) == Leq(y, x)
Eq(x, y) == Leq(x, y) /\ Leq(y, x)

\* Series.max() and Series.min(): NaN cells are skipped, NaN when none is left
SeriesMax(s) ==
    LET S == { s[i] : i \in { j \in 1..Len(s) : ~s[j].nan } }
    IN  IF S = {} THEN NaN ELSE CHOOSE x \in S : \A y \in S : Leq(y, x)

SeriesMin(s) ==
    LET S == { s[i] : i \in { j \in 1..Len(s) : ~s[j].nan } }
    IN  IF S = {} THEN NaN ELSE CHOOSE x \in S : \A y \in S : Leq(x, y)

\* a column of numeric cells as a float Series
AsSeries(df, name) == [i \in 1..df.n |-> FromInt(df.col[name][i])]

-----------------------------------------------------------------------------
(* extract_features: lines 8-19. *)

missing_columns(data) ==
    SelectSeq(required_columns, LAMBDA c : c \notin Columns(data))

all_present(data) == \A c \in RequiredSet : c \in Columns(data)

\* extract_features with `any` written for `all` in line 16
extract_features_any(data) ==
    IF ~(\E c \in RequiredSet : c \in Columns(data))
    THEN [raised |-> TRUE, missing |-> missing_columns(data), value |-> EmptyFrame]
    ELSE [raised |-> FALSE, missing |-> <<>>,
          value |-> Select(data, RequiredSet \cap Columns(data))]

\* raised = TRUE is the ValueError, whose message carries `missing`
extract_features(data) ==
    IF ~all_present(data)
    THEN [raised |-> TRUE, missing |-> missing_columns(data), value |-> EmptyFrame]
    ELSE [raised |-> FALSE, missing |-> <<>>, value |-> Select(data, RequiredSet)]

-----------------------------------------------------------------------------
(* ARGMobilityAnalyzer: lines 22-53. *)

\* the weights of line 32-39, as hundredths
WeightCE == 20
WeightDegree == 15
WeightBetweenness == 20
WeightClustering == 15
WeightPTC == 15
WeightNC == 15

Weight(w) == Num(w, 100)

\* the first column of the formula that is absent: the KeyError's key
missing_mobility_columns(data) ==
    SelectSeq(mobility_columns, LAMBDA c : c \notin Columns(data))

\* mobility_scores, lines 31-40 (all six columns present)
mobility_scores(data) ==
    LET ce  == AsSeries(data, "CommunicationEfficiency")
        dg  == AsSeries(data, "Degree")
        bc  == AsSeries(data, "BetweennessCentrality")
        cc  == AsSeries(data, "ClusteringCoefficient")
        ptc == AsSeries(data, "PositiveTopologyCoefficient")
        nc  == AsSeries(data, "NeighborhoodConnectivity")
        dgmax == SeriesMax(dg)
        bcmax == SeriesMax(bc)
        ncmax == SeriesMax(nc)
    IN  [i \in 1..data.n |->
           Add(Add(Add(Add(Add(
               Mul(Weight(WeightCE), ce[i]),
               Mul(Weight(WeightDegree), Div(dg[i], dgmax))),
               Mul(Weight(WeightBetweenness), Div(bc[i], bcmax))),
               Mul(Weight(WeightClustering), cc[i])),
               Mul(Weight(WeightPTC), ptc[i])),
               Mul(Weight(WeightNC), Div(nc[i], ncmax)))]

\* line 41 without the subtraction of the minimum in the numerator
normalize_no_shift(scores) ==
    LET lo == SeriesMin(scores)
        hi == SeriesMax(scores)
    IN  [i \in 1..Len(scores) |-> Div(scores[i], Sub(hi, lo))]

\* line 41: min-max normalisation of a Series
normalize(scores) ==
    LET lo == SeriesMin(scores)
        hi == SeriesMax(scores)
    IN  [i \in 1..Len(scores) |-> Div(Sub(scores[i], lo), Sub(hi, lo))]

\* _calculate_mobility_potential, lines 30-41
calculate_mobility_potential(data) == normalize(mobility_scores(data))

\* the lambda of line 47 with > written for >=
category_strict(x) ==
    IF Geq(x, Num(7, 10)) /\ ~Eq(x, Num(7, 10)) THEN High
    ELSE IF Geq(x, Num(3, 10)) /\ ~Eq(x, Num(3, 10)) THEN Moderate
    ELSE Low

\* the lambda of line 47
category(x) ==
    IF Geq(x, Num(7, 10)) THEN High
    ELSE IF Geq(x, Num(3, 10)) THEN Moderate
    ELSE Low

\* analyze_mobility, lines 43-53
analyze_mobility(data, potential) ==
    LET r1 == SetColumn(data, "mobility_potential", potential)
        r2 == SetColumn(r1, "mobility_category",
                        [i \in 1..data.n |-> category(potential[i])])
    IN  IF "Node" \in Columns(data)
        THEN SetColumn(r2, "Node", data.col["Node"])
        ELSE r2

-----------------------------------------------------------------------------
(* The classification helpers of main(): lines 137, 146. *)

\* the dict of line 137; Series.map gives NaN for a key that is not in it
map_label(l) == IF l = 1 THEN ARG ELSE IF l = 0 THEN NonARG ELSE NaNCell

\* line 137 attaching the labels in reverse row order
map_predictions_reversed(labels) ==
    [i \in 1..Len(labels) |-> map_label(labels[Len(labels) + 1 - i])]

\* pd.Series(predictions).map({...}), assigned by index: row i gets label i
map_predictions(labels) == [i \in 1..Len(labels) |-> map_label(labels[i])]

\* line 146 / 170 listing the distinct values without counting them
value_counts_unique(cells) ==
    [v \in Range(cells) \ {NaNCell} |-> 1]

\* Series.value_counts(): count per distinct value, NaN cells dropped
value_counts(cells) ==
    [v \in Range(cells) \ {NaNCell} |->
        Cardinality({ i \in 1..Len(cells) : cells[i] = v })]

RECURSIVE SumOver(_, _)
SumOver(f, S) ==
    IF S = {} THEN 0
    ELSE LET v == CHOOSE x \in S : TRUE IN f[v] + SumOver(f, S \ {v})

Total(counts) == SumOver(counts, DOMAIN counts)

-----------------------------------------------------------------------------
(* The uploads a run can start from. *)

Models == {"loaded", "None"}

NoFile == [present |-> FALSE, parses |-> FALSE, frame |-> EmptyFrame]
\* a file pd.read_csv raises on
BadFile == [present |-> TRUE, parses |-> FALSE, frame |-> EmptyFrame]
GoodFile(df) == [present |-> TRUE, parses |-> TRUE, frame |-> df]

\* the cells a column of n rows can hold: when the column is absent, or is
\* none of the six the scorer reads, one fixed filling; when the cells are
\* free, any of 0..vmax; else the cells v shared by the six columns
CellsOf(cols, name, n, vmax, free, v) ==
    IF name \notin cols THEN {[i \in 1..n |-> 0]}
    ELSE IF free THEN [1..n -> 0..vmax]
    ELSE {v}

\* the Node column holds the row's number as identifier; the columns no code
\* reads cell by cell hold 0
Frame(cols, n, ce, dg, bc, cc, ptc, nc) ==
    [n |-> n,
     col |-> [c \in cols |->
        CASE c = "Node" -> [i \in 1..n |-> i]
          [] c = "CommunicationEfficiency" -> ce
          [] c = "Degree" -> dg
          [] c = "BetweennessCentrality" -> bc
          [] c = "ClusteringCoefficient" -> cc
          [] c = "PositiveTopologyCoefficient" -> ptc
          [] c = "NeighborhoodConnectivity" -> nc
          [] OTHER -> [i \in 1..n |-> 0]]]

\* the state in which main() starts (position `at`, after `read` was read)
Start(file, t, m, at, read) ==
    /\ uploaded_file = file
    /\ task = t
    /\ model = m
    /\ pc = at
    /\ input_data = read
    /\ features = <<>>
    /\ predictions = <<>>
    /\ mobility_potential = <<>>
    /\ results = <<>>
    /\ shown = <<>>
    /\ chart = <<>>
    /\ download = <<>>
    /\ errors = <<>>
    /\ predict_calls = 0

\* a parseable upload with columns from ColSets and 0..rows rows (the larger
\* tables first), cells 0..vmax; unless `free`, a row has one value in all of
\* its six scored cells
StartWithTable(ColSets, rows, vmax, free, t, m, at) ==
    \E cols \in ColSets, k \in 0..rows :
      LET n == rows - k
      IN  \E v \in (IF free THEN {[i \in 1..n |-> 0]} ELSE [1..n -> 0..vmax]) :
          \E ce  \in CellsOf(cols, "CommunicationEfficiency", n, vmax, free, v),
             dg  \in CellsOf(cols, "Degree", n, vmax, free, v),
             bc  \in CellsOf(cols, "BetweennessCentrality", n, vmax, free, v),
             cc  \in CellsOf(cols, "ClusteringCoefficient", n, vmax, free, v),
             ptc \in CellsOf(cols, "PositiveTopologyCoefficient", n, vmax, free, v),
             nc  \in CellsOf(cols, "NeighborhoodConnectivity", n, vmax, free, v) :
            LET df == Frame(cols, n, ce, dg, bc, cc, ptc, nc)
            IN  Start(GoodFile(df), t, m, at,
                      IF at = "start" THEN <<>> ELSE <<df>>)

\* uploads lacking at most MaxMissing required columns, with or without Node
ColumnSets ==
    { (RequiredSet \ M) \cup O :
        M \in { X \in SUBSET RequiredSet : Cardinality(X) <= MaxMissing },
        O \in SUBSET {"Node"} }

Init ==
    \E t \in Tasks, m \in Models :
        \/ Start(NoFile, t, m, "start", <<>>)
        \/ Start(BadFile, t, m, "start", <<>>)
        \/ StartWithTable(ColumnSets, MaxRows, MaxVal, FALSE, t, m, "start")

-----------------------------------------------------------------------------
(* main(): lines 123-194. *)

\* lines 190-191 followed by a retry of the run
Except_retry(kind, detail) ==
    /\ errors' = Append(errors, [kind |-> kind, detail |-> detail])
    /\ pc' = "start"

\* the except clause of lines 190-191: one st.error, and main() returns
Except(kind, detail) ==
    /\ errors' = Append(errors, [kind |-> kind, detail |-> detail])
    /\ pc' = "failed"

\* lines 124, 193-194: nothing uploaded
NoUpload ==
    /\ pc = "start"
    /\ ~uploaded_file.present
    /\ pc' = "idle"
    /\ UNCHANGED <<model, task, uploaded_file, input_data, features,
                   predictions, mobility_potential, results, shown, chart,
                   download, errors, predict_calls>>

\* line 126: pd.read_csv
ReadCsv ==
    /\ pc = "start"
    /\ uploaded_file.present
    /\ IF uploaded_file.parses
       THEN /\ input_data' = <<uploaded_file.frame>>
            /\ pc' = "task"
            /\ UNCHANGED errors
       ELSE /\ Except("MalformedInput", <<>>)
            /\ UNCHANGED input_data
    /\ UNCHANGED <<model, task, uploaded_file, features, predictions,
                   mobility_potential, results, shown, chart, download,
                   predict_calls>>

\* lines 128-134: the model check of the classification task
ModelCheck ==
    /\ pc = "task"
    /\ task = "ARG Classification"
    /\ IF model = "None"
       THEN errors' = Append(errors, [kind |-> "ModelUnavailable", detail |-> <<>>])
            /\ pc' = "failed"
       ELSE pc' = "extract" /\ UNCHANGED errors
    /\ UNCHANGED <<model, task, uploaded_file, input_data, features,
                   predictions, mobility_potential, results, shown, chart,
                   download, predict_calls>>

\* line 135
ExtractFeatures ==
    /\ pc = "extract"
    /\ LET r == extract_features(input_data[1])
       IN  IF r.raised
           THEN Except("MissingColumns", r.missing) /\ UNCHANGED features
           ELSE /\ features' = <<r.value>>
                /\ pc' = "predict"
                /\ UNCHANGED errors
    /\ UNCHANGED <<model, task, uploaded_file, input_data, predictions,
                   mobility_potential, results, shown, chart, download,
                   predict_calls>>

\* what model.predict can do with n rows: one label per row; the estimator
\* may refuse an empty batch
predict(n) ==
    { [raised |-> FALSE, labels |-> l] : l \in [1..n -> Labels] }
    \cup (IF n = 0 THEN {[raised |-> TRUE, labels |-> <<>>]} ELSE {})

\* line 136
Predict ==
    /\ pc = "predict"
    /\ predict_calls' = predict_calls + 1
    /\ \E r \in predict(features[1].n) :
         IF r.raised
         THEN Except("PredictError", <<>>) /\ UNCHANGED predictions
         ELSE /\ predictions' = <<r.labels>>
              /\ pc' = "map"
              /\ UNCHANGED errors
    /\ UNCHANGED <<model, task, uploaded_file, input_data, features,
                   mobility_potential, results, shown, chart, download>>

\* lines 137-141
MapPredictions ==
    /\ pc = "map"
    /\ input_data' = <<SetColumn(input_data[1], "Predictions",
                                 map_predictions(predictions[1]))>>
    /\ pc' = "show_classification"
    /\ UNCHANGED <<model, task, uploaded_file, features, predictions,
                   mobility_potential, results, shown, chart, download,
                   errors, predict_calls>>

\* df[names] of lines 143 and 167: the KeyError lists the absent names
absent(df, names) == SelectSeq(names, LAMBDA c : c \notin Columns(df))

\* line 143
ShowClassification ==
    /\ pc = "show_classification"
    /\ LET df == input_data[1]
           names == <<"Node", "Predictions">>
       IN  IF absent(df, names) # <<>>
           THEN Except("KeyError", absent(df, names)) /\ UNCHANGED shown
           ELSE /\ shown' = <<Select(df, Range(names))>>
                /\ pc' = "chart_classification"
                /\ UNCHANGED errors
    /\ UNCHANGED <<model, task, uploaded_file, input_data, features,
                   predictions, mobility_potential, results, chart, download,
                   predict_calls>>

\* lines 146-156
ChartClassification ==
    /\ pc = "chart_classification"
    /\ chart' = <<value_counts(input_data[1].col["Predictions"])>>
    /\ pc' = "download_classification"
    /\ UNCHANGED <<model, task, uploaded_file, input_data, features,
                   predictions, mobility_potential, results, shown, download,
                   errors, predict_calls>>

\* lines 159-160
DownloadClassification ==
    /\ pc = "download_classification"
    /\ download' = <<input_data[1]>>
    /\ pc' = "rendered"
    /\ UNCHANGED <<model, task, uploaded_file, input_data, features,
                   predictions, mobility_potential, results, shown, chart,
                   errors, predict_calls>>

\* lines 162-165: ARGMobilityAnalyzer(input_data), that is lines 23-41; the
\* first column of the formula that is absent raises KeyError
AnalyzerInit ==
    /\ pc = "task"
    /\ task = "Mobility Analysis"
    /\ LET df == input_data[1]
       IN  IF missing_mobility_columns(df) # <<>>
           THEN /\ Except("KeyError", <<Head(missing_mobility_columns(df))>>)
                /\ UNCHANGED mobility_potential
           ELSE /\ mobility_potential' = <<calculate_mobility_potential(df)>>
                /\ pc' = "analyze"
                /\ UNCHANGED errors
    /\ UNCHANGED <<model, task, uploaded_file, input_data, features,
                   predictions, results, shown, chart, download,
                   predict_calls>>

\* line 166
AnalyzeMobility ==
    /\ pc = "analyze"
    /\ results' = <<analyze_mobility(input_data[1], mobility_potential[1])>>
    /\ pc' = "show_mobility"
    /\ UNCHANGED <<model, task, uploaded_file, input_data, features,
                   predictions, mobility_potential, shown, chart, download,
                   errors, predict_calls>>

\* line 167
ShowMobility ==
    /\ pc = "show_mobility"
    /\ LET df == results[1]
           names == <<"Node", "mobility_potential", "mobility_category">>
       IN  IF absent(df, names) # <<>>
           THEN Except("KeyError", absent(df, names)) /\ UNCHANGED shown
           ELSE /\ shown' = <<Select(df, Range(names))>>
                /\ pc' = "chart_mobility"
                /\ UNCHANGED errors
    /\ UNCHANGED <<model, task, uploaded_file, input_data, features,
                   predictions, mobility_potential, results, chart, download,
                   predict_calls>>

\* lines 170-184
ChartMobility ==
    /\ pc = "chart_mobility"
    /\ chart' = <<value_counts(results[1].col["mobility_category"])>>
    /\ pc' = "download_mobility"
    /\ UNCHANGED <<model, task, uploaded_file, input_data, features,
                   predictions, mobility_potential, results, shown, download,
                   errors, predict_calls>>

\* lines 187-188
DownloadMobility ==
    /\ pc = "download_mobility"
    /\ download' = <<results[1]>>
    /\ pc' = "rendered"
    /\ UNCHANGED <<model, task, uploaded_file, input_data, features,
                   predictions, mobility_potential, results, shown, chart,
                   errors, predict_calls>>

Next ==
    \/ NoUpload
    \/ ReadCsv
    \/ ModelCheck
    \/ ExtractFeatures
    \/ Predict
    \/ MapPredictions
    \/ ShowClassification
    \/ ChartClassification
    \/ DownloadClassification
    \/ AnalyzerInit
    \/ AnalyzeMobility
    \/ ShowMobility
    \/ ChartMobility
    \/ DownloadMobility

\* the whole page: both tasks, with and without the model, no file, a file
\* that does not parse, and tables lacking up to MaxMissing required columns,
\* with and without Node, whose rows each hold one value in their scored cells
Spec == Init /\ [][Next]_vars

\* the whole page on every subset of the thirteen column names, tables of at
\* most ColumnRows rows
InitColumns ==
    \E t \in Tasks, m \in Models :
        \/ Start(NoFile, t, m, "start", <<>>)
        \/ Start(BadFile, t, m, "start", <<>>)
        \/ StartWithTable(SUBSET AllColumns, ColumnRows, 0, FALSE, t, m, "start")

SpecColumns == InitColumns /\ [][Next]_vars

\* the scorer alone: complete tables of at most MaxRows rows with every
\* scored cell free in 0..MaxVal, read already
InitScore ==
    StartWithTable({RequiredSet \cup {"Node"}}, MaxRows, MaxVal, TRUE,
                   "Mobility Analysis", "None", "task")

NextScore == AnalyzerInit \/ AnalyzeMobility

SpecScore == InitScore /\ [][NextScore]_vars

-----------------------------------------------------------------------------
(* The states of a run, as the specification names them. *)

Parsed == input_data # <<>>
Upload == uploaded_file.frame
Validated == features # <<>>
Classified == Parsed /\ "Predictions" \in Columns(input_data[1])
Scored == mobility_potential # <<>>
Rendered == pc = "rendered"
Failed == pc = "failed"
Finished == pc \in {"rendered", "failed", "idle"}
FailedWith(kind) == Failed /\ errors # <<>> /\ errors[Len(errors)].kind = kind
MissingOf(df) == RequiredSet \ Columns(df)
ValidUpload == uploaded_file.parses /\ MissingOf(Upload) = {}

\* x is a defined number of [0, 1]
InUnitInterval(x) == ~x.nan /\ x.den > 0 /\ 0 <= x.num /\ x.num <= x.den

\* two rows have raw scores that are numbers and differ
ScoresDiffer(s) ==
    \E i, j \in 1..Len(s) :
        /\ ~s[i].nan /\ ~s[j].nan
        /\ s[i].num * s[j].den # s[j].num * s[i].den

\* batch_max == batch_min: every row has the same raw score, a number
ScoresAllEqual(s) ==
    /\ Len(s) >= 1
    /\ \A i, j \in 1..Len(s) :
        /\ ~s[i].nan /\ ~s[j].nan
        /\ s[i].num * s[j].den = s[j].num * s[i].den

-----------------------------------------------------------------------------
(* C1: in either task the Feature Validator runs before any classification *)
(* or scoring step: no run is Classified, Scored or Rendered without being *)
(* Validated, and a run on an upload lacking a required column ends in     *)
(* Failed(MissingColumns) naming the columns, with no result table.        *)
C1_ValidatedBeforeResults ==
    /\ (Classified \/ Scored \/ Rendered) => Validated
    /\ (Finished /\ uploaded_file.parses /\ MissingOf(Upload) # {}) =>
          /\ FailedWith("MissingColumns")
          /\ Range(errors[Len(errors)].detail) = MissingOf(Upload)
          /\ shown = <<>>

(* C2: extract_features raises exactly when the set M of absent required   *)
(* columns is not empty, and the error then names exactly the columns of   *)
(* M, each once; when M is empty it returns the required columns.          *)
C2_MissingColumnsExact ==
    (task = "ARG Classification" /\ model = "loaded" /\ Parsed
        /\ pc \notin {"task", "extract"}) =>
      LET M == MissingOf(Upload)
      IN  IF M # {}
          THEN /\ FailedWith("MissingColumns")
               /\ Len(errors) = 1
               /\ Range(errors[1].detail) = M
               /\ Len(errors[1].detail) = Cardinality(M)
               /\ features = <<>>
          ELSE /\ features # <<>>
               /\ Columns(features[1]) = RequiredSet
               /\ \A i \in 1..Len(errors) : errors[i].kind # "MissingColumns"

C2_Witness ==
    /\ task = "ARG Classification"
    /\ FailedWith("MissingColumns")
    /\ "Node" \in Columns(Upload)
    /\ errors[1].detail = <<"Degree", "Eccentricity">>

(* C3: with the classifier absent, predict is never called, every classify *)
(* run on a parsed upload fails with ModelUnavailable, and every           *)
(* score-mobility run on a valid upload (the required columns, Node        *)
(* optional) completes with its result table shown.                        *)
C3_ModelAbsentDegradesGracefully ==
    model = "None" =>
      /\ predict_calls = 0
      /\ (task = "ARG Classification" /\ Parsed /\ pc # "task") =>
            /\ FailedWith("ModelUnavailable")
            /\ Len(errors) = 1
      /\ (task = "Mobility Analysis" /\ Finished /\ ValidUpload) =>
            /\ Rendered
            /\ shown # <<>>

C5_CategoryByThreshold ==
    results # <<>> =>
      \A i \in 1..results[1].n :
        LET p == results[1].col["mobility_potential"][i]
            c == results[1].col["mobility_category"][i]
        IN  /\ p = mobility_potential[1][i]
            /\ c \in {High, Moderate, Low}
            /\ (~p.nan /\ 10 * p.num >= 7 * p.den) => c = High
            /\ (~p.nan /\ 10 * p.num >= 3 * p.den /\ 10 * p.num < 7 * p.den)
                  => c = Moderate
            /\ (~p.nan /\ 10 * p.num < 3 * p.den) => c = Low

\* a row whose potential is exactly 0.7, categorised High
C5_Witness ==
    /\ results # <<>>
    /\ \E i \in 1..results[1].n :
         /\ results[1].col["mobility_potential"][i] = Num(7, 10)
         /\ results[1].col["mobility_category"][i] = High

(* C6: when every row of the batch has the same raw score (batch_max ==    *)
(* batch_min, single-row batches included), a score-mobility run never     *)
(* shows a result table whose mobility_potential is undefined.             *)
C6_NoUndefinedPotentialShown ==
    (task = "Mobility Analysis" /\ shown # <<>>
        /\ ScoresAllEqual(mobility_scores(input_data[1]))) =>
      \A i \in 1..shown[1].n : ~shown[1].col["mobility_potential"][i].nan

(* C7: in both tasks the counts of the distribution summary sum to the     *)
(* number of rows of the uploaded table.                                   *)
C7_CountsSumToRows ==
    chart # <<>> => Total(chart[1]) = Upload.n

C7_Witness ==
    /\ Rendered
    /\ task = "ARG Classification"
    /\ Upload.n = 2
    /\ DOMAIN chart[1] = {ARG, NonARG}

(* C8: a score-mobility run on an upload with the required columns ends    *)
(* Rendered whether or not the upload has a Node column: without Node the  *)
(* shown table has no Node column, with Node it has the upload's Node      *)
(* cells in row order.                                                     *)
C8_NodeIsOptional ==
    (task = "Mobility Analysis" /\ Finished /\ ValidUpload) =>
      /\ Rendered
      /\ IF "Node" \in Columns(Upload)
         THEN shown[1].col["Node"] = Upload.col["Node"]
         ELSE "Node" \notin Columns(shown[1])

\* an error was reported for the run's input: the file did not parse, or
\* lacks a required column the task reads
InputFailureReported ==
    \E i \in 1..Len(errors) :
        \/ errors[i].kind \in {"MalformedInput", "MissingColumns"}
        \/ /\ errors[i].kind = "KeyError"
           /\ Range(errors[i].detail) \subseteq RequiredSet

(* C9: a run that failed on a malformed or incomplete upload has shown no  *)
(* table, no chart and no download, has reported exactly one error, and    *)
(* takes no further step.                                                  *)
C9_InputFailureIsTerminal ==
    InputFailureReported =>
      /\ Failed
      /\ shown = <<>>
      /\ chart = <<>>
      /\ download = <<>>
      /\ Len(errors) = 1
      /\ ~ENABLED Next

C9_Witness ==
    /\ FailedWith("MissingColumns")
    /\ input_data # <<>>
    /\ input_data[1].n = 2

(* C10: once a run is Classified, row i's Predictions cell is ARG exactly  *)
(* when predict's label for row i is 1 and Non-ARG exactly when it is 0.   *)
C10_LabelRemap ==
    Classified =>
      /\ Len(predictions[1]) = Upload.n
      /\ Len(input_data[1].col["Predictions"]) = Upload.n
      /\ \A i \in 1..Upload.n :
           /\ input_data[1].col["Predictions"][i] = ARG
                 <=> predictions[1][i] = 1
           /\ input_data[1].col["Predictions"][i] = NonARG
                 <=> predictions[1][i] = 0

C10_Witness ==
    /\ Classified
    /\ predictions[1] = <<1, 0>>
    /\ input_data[1].col["Predictions"] = <<ARG, NonARG>>

====
